---- MODULE Spec2Model ----
(***************************************************************************)
(* Model of sync.py: the tag resolver (get_tags_sorted_by_commit_time),    *)
(* the four source routines, download_file and main.  The network is the   *)
(* environment: every response is a nondeterministic choice of the action  *)
(* that issues the request.                                                *)
(***************************************************************************)
EXTENDS Integers, Sequences, FiniteSets, TLC

\* ---------------------------------------------------------------- bounds
\* Largest number of tags the tag-list response holds.
MaxTags == 2
\* Commit dates carry a local wall-clock time 0..MaxLocal (in hours).
MaxLocal == 1

VARIABLES
    token,          \* TOKEN is configured (non-empty)
    pc,             \* position of the program
    tags,           \* the parsed tag list (resolver local)
    i,              \* the resolver's loop index (enumerate from 1)
    tags_with_time, \* the enriched tags, in the order they were appended
    result,         \* what get_tags_sorted_by_commit_time returned
    events,         \* resolver history: the requests issued, each with the
                    \* error safe_request raised ("" if none), and the delays
    exc,            \* the exception that escaped, "none" if none
    latest_version, \* <<>> until main reads it from result[0], then <<name>>
    runs,           \* the source routines main has called, in order, each
                    \* with the value it returned
    fetched,        \* the artifacts the routine called last downloaded
    dl_requests,    \* requests issued by the source routines and download_file
    files,          \* the files under ./data opened for writing
    success_count,  \* main's counter
    main_ret,       \* <<>> until main returns, then <<status>>
    exit_code       \* <<>> until the process exits, then <<code>>

\* The state of one call of safe_request or download_file taken alone.
VARIABLES
    call,           \* the call: the function and its arguments
    upc,            \* position in the call
    http,           \* the HTTP requests the call has issued, in order
    total_size,     \* download_file: the declared content length
    size_str,       \* download_file: the size as shown
    stream,         \* download_file: the chunk lengths iter_content yields
    chunk_no,       \* download_file: the number of chunks read so far
    before,         \* the file at the destination path before the call
    disk,           \* the file at the destination path
    outcome         \* how the call ended

uvars == <<call, upc, http, total_size, size_str, stream, chunk_no, before,
           disk, outcome>>

mvars == <<token, pc, tags, i, tags_with_time, result, events, exc,
           latest_version, runs, fetched, dl_requests, files, success_count,
           main_ret, exit_code>>

vars == <<mvars, uvars>>

\* ---------------------------------------------------------------- headers
\* A header set is modelled by the set of its header names.
\* (faulty variant: the Authorization header is added without a token)
GITHUB_HEADERS_Always(t) == {"Accept", "Authorization"}
GITHUB_HEADERS(t) == IF t THEN {"Accept", "Authorization"} ELSE {"Accept"}

BROWSER_HEADERS == {"user-agent"}

\* ------------------------------------------------------------------ dates
\* The author date of a commit response is a string
\*     YYYY-MM-DDTHH:MM:SS<tz>     with <tz> one of Z, +02:00, -02:00.
\* The fixed-width part is modelled by the number of hours it denotes
\* (lexicographic order of fixed-width digit fields is numeric order), the
\* suffix is kept as text.
TzSuffixes == {"Z", "+02:00", "-02:00"}
DateStrings == [local : 0..MaxLocal, tz : TzSuffixes]

\* commit_date_str.replace('Z', '+00:00')
ReplaceZ(tz) == IF tz = "Z" THEN "+00:00" ELSE tz

\* datetime.fromisoformat: an aware datetime, local time and utc offset (hours).
UtcOffset(tz) == CASE tz = "+00:00" -> 0
                   [] tz = "+02:00" -> 2
                   [] tz = "-02:00" -> 0 - 2

FromIsoFormat(d) == [local |-> d.local, off |-> UtcOffset(ReplaceZ(d.tz))]

\* datetime.isoformat(): the local time followed by the offset as +HH:MM or
\* -HH:MM.  The string is modelled by the tuple <<local, sign, hours>> with
\* sign the character code of '+' (43) or '-' (45), so that the order of
\* tuples below is the order of the strings.
IsoFormat(dt) == <<dt.local,
                   IF dt.off >= 0 THEN 43 ELSE 45,
                   IF dt.off >= 0 THEN dt.off ELSE 0 - dt.off>>

\* Python's str comparison a < b on two such strings.
StrLess(a, b) ==
    \/ a[1] < b[1]
    \/ a[1] = b[1] /\ a[2] < b[2]
    \/ a[1] = b[1] /\ a[2] = b[2] /\ a[3] < b[3]

\* The instant in time (hours, UTC) an isoformat string denotes.
InstantOf(s) == s[1] - (IF s[2] = 43 THEN s[3] ELSE 0 - s[3])

\* ------------------------------------------------------------------- sort
\* list.sort(key=lambda x: x['commit_date'], reverse=True): a stable sort on
\* the commit_date strings, descending; equal keys keep their order.
InsertDesc(t, x) ==
    LET p == Cardinality({j \in 1..Len(t) : ~StrLess(t[j].commit_date, x.commit_date)})
    IN  SubSeq(t, 1, p) \o <<x>> \o SubSeq(t, p + 1, Len(t))

RECURSIVE SortReverse(_)
SortReverse(s) ==
    IF s = <<>> THEN <<>>
    ELSE InsertDesc(SortReverse(SubSeq(s, 1, Len(s) - 1)), s[Len(s)])

\* -------------------------------------------------------------- transport
\* What the network does with one HTTP request: a response of some status
\* class, or a failure of the requests library.
NetOutcomes == {"1xx", "2xx", "3xx", "4xx", "5xx", "timeout", "connection", "other"}

\* safe_request: [ok, sent, err].  raise_for_status raises for 4xx and 5xx;
\* every exception leaves as a DownloadError whose message starts with err.
\* (faulty variant: an exception of no known kind is swallowed)
SafeRequestSwallow(method, net) ==
    IF method \notin {"GET", "POST", "DELETE", "HEAD"}
    THEN [ok |-> FALSE, sent |-> FALSE, err |-> "unknown"]
    ELSE CASE net \in {"1xx", "2xx", "3xx"} -> [ok |-> TRUE, sent |-> TRUE, err |-> ""]
           [] net \in {"4xx", "5xx"} -> [ok |-> FALSE, sent |-> TRUE, err |-> "http"]
           [] net = "timeout" -> [ok |-> FALSE, sent |-> TRUE, err |-> "timeout"]
           [] net = "connection" -> [ok |-> FALSE, sent |-> TRUE, err |-> "connection"]
           [] OTHER -> [ok |-> TRUE, sent |-> TRUE, err |-> ""]
\* (faulty variant: every status outside 2xx raises)
SafeRequestStrict(method, net) ==
    IF method \notin {"GET", "POST", "DELETE", "HEAD"}
    THEN [ok |-> FALSE, sent |-> FALSE, err |-> "unknown"]
    ELSE CASE net = "2xx" -> [ok |-> TRUE, sent |-> TRUE, err |-> ""]
           [] net \in {"1xx", "3xx", "4xx", "5xx"} ->
                  [ok |-> FALSE, sent |-> TRUE, err |-> "http"]
           [] net = "timeout" -> [ok |-> FALSE, sent |-> TRUE, err |-> "timeout"]
           [] net = "connection" -> [ok |-> FALSE, sent |-> TRUE, err |-> "connection"]
           [] OTHER -> [ok |-> FALSE, sent |-> TRUE, err |-> "unknown"]
SafeRequest(method, net) ==
    IF method \notin {"GET", "POST", "DELETE", "HEAD"}
    THEN [ok |-> FALSE, sent |-> FALSE, err |-> "unknown"]
    ELSE CASE net \in {"1xx", "2xx", "3xx"} -> [ok |-> TRUE, sent |-> TRUE, err |-> ""]
           [] net \in {"4xx", "5xx"} -> [ok |-> FALSE, sent |-> TRUE, err |-> "http"]
           [] net = "timeout" -> [ok |-> FALSE, sent |-> TRUE, err |-> "timeout"]
           [] net = "connection" -> [ok |-> FALSE, sent |-> TRUE, err |-> "connection"]
           [] OTHER -> [ok |-> FALSE, sent |-> TRUE, err |-> "unknown"]

\* --------------------------------------------------------------- resolver
\* The value get_tags_sorted_by_commit_time returns: the dict {"error": msg}
\* or a list of enriched tags.  NoResult stands for "not returned yet".
NoResult == [shape |-> "none", error |-> "", items |-> <<>>]
ErrorDict(msg) == [shape |-> "dict", error |-> msg, items |-> <<>>]
TagList(items) == [shape |-> "list", error |-> "", items |-> items]

\* A listed tag: its name (the k-th listed tag is named k) and which of the
\* fields the loop reads it carries.
TagShapes == {"ok", "no_name", "no_commit_url"}
RECURSIVE TagLists(_)
TagLists(n) ==
    IF n = 0 THEN {<<>>}
    ELSE TagLists(n - 1) \cup
         {Append(s, [name |-> n, wf |-> w]) : s \in {t \in TagLists(n - 1) : Len(t) = n - 1},
                                              w \in TagShapes}

\* The body of the tag-list response: a JSON list of tags, or not JSON.
ListBodies == [kind : {"ok"}, tags : TagLists(MaxTags)]
              \cup {[kind |-> "not_json", tags |-> <<>>]}

\* The body of a commit response: valid with an author date, or lacking
\* what the loop body reads.
BadCommitBodies == {"not_json", "no_author_date", "bad_date", "no_message", "no_author_name"}
CommitBodies == [kind : {"ok"}, date : DateStrings]
                \cup [kind : BadCommitBodies, date : {[local |-> 0, tz |-> "Z"]}]

\* The exception each malformed body raises in the loop body (lines 206-216).
CommitException(kind) ==
    CASE kind = "not_json" -> "JSONDecodeError"
      [] kind = "bad_date" -> "ValueError"
      [] OTHER -> "KeyError"

\* Line 226: the delay is taken unless this is the last tag.
SleepNeeded(k, n) == k < n

\* Lines 221-223: a DownloadError in the commit request is logged and the
\* loop continues with the next tag; tags_with_time is left as it is.
\* (faulty variant: the failed tag is appended all the same)
OnCommitErrorAppend(tw, tag) ==
    Append(tw, [name |-> tag.name, commit_date |-> <<0, 43, 0>>])
OnCommitError(tw, tag) == tw

\* Lines 213-218: the enriched copy of the tag is appended.
Enriched(tag, body) ==
    [name |-> tag.name, commit_date |-> IsoFormat(FromIsoFormat(body.date))]

\* ------------------------------------------------------------ single call
\* A byte count n = kib * 1024 + rem with 0 <= rem < 1024 (a content length
\* may reach 2 * 1024^3, beyond the integers TLC computes with).
Bytes(kib, rem) == [kib |-> kib, rem |-> rem]

\* The values of the single-call state while no call is under way.
NoCall == [fn |-> "none", method |-> "", url |-> "", filename |-> "",
           headers |-> [given |-> FALSE, h |-> {}]]
NoSizeStr == [int |-> 0, frac |-> <<>>, unit |-> ""]
NoFile == [exists |-> FALSE, content |-> <<>>]
NoMessage == [kind |-> "", code |-> 0, url |-> "", detail |-> ""]
NoOutcome == [kind |-> "none", exc |-> "none", msg |-> NoMessage, path |-> ""]

Idle ==
    /\ call = NoCall
    /\ upc = "idle"
    /\ http = <<>>
    /\ total_size = Bytes(0, 0)
    /\ size_str = NoSizeStr
    /\ stream = <<>>
    /\ chunk_no = 0
    /\ before = NoFile
    /\ disk = NoFile
    /\ outcome = NoOutcome

Init ==
    /\ Idle
    /\ token \in BOOLEAN
    /\ pc = "main"
    /\ tags = <<>>
    /\ i = 0
    /\ tags_with_time = <<>>
    /\ result = NoResult
    /\ events = <<>>
    /\ exc = "none"
    /\ latest_version = <<>>
    /\ runs = <<>>
    /\ fetched = {}
    /\ dl_requests = {}
    /\ files = {}
    /\ success_count = 0
    /\ main_ret = <<>>
    /\ exit_code = <<>>

\* Lines 184-193 (called from main, line 242): the tag-list request.
\* The value returned when the tag-list request raised DownloadError.
\* (faulty variant: the failure is reported as an empty list)
ListFailReturnsEmpty(msg) == TagList(<<>>)
ListFail(msg) == ErrorDict(msg)

ListTags ==
    /\ pc = "main"
    /\ \E net \in NetOutcomes, body \in ListBodies :
        LET r == SafeRequest("GET", net) IN
        /\ events' = Append(events, [kind |-> "list", tag |-> 0, err |-> r.err,
                                     headers |-> GITHUB_HEADERS(token)])
        /\ IF ~r.ok
           THEN /\ result' = ListFail(r.err)
                /\ pc' = "check"
                /\ UNCHANGED <<tags, i, exc>>
           ELSE IF body.kind # "ok"
           THEN /\ exc' = "JSONDecodeError"
                /\ pc' = "raised"
                /\ UNCHANGED <<tags, i, result>>
           ELSE /\ tags' = body.tags
                /\ i' = 1
                /\ pc' = "loop"
                /\ UNCHANGED <<result, exc>>
    /\ UNCHANGED <<token, tags_with_time, latest_version, runs, fetched,
                   dl_requests, files, success_count, main_ret, exit_code>>
    /\ UNCHANGED uvars

\* Line 222: continue goes on to the next tag of the enumeration.
\* (faulty variant: the failed tag is taken again)
RetryIndex(k) == k
NextIndex(k) == k + 1

\* Lines 198-227: one iteration of the loop over the tags.
EnrichTag ==
    /\ pc = "loop"
    /\ i <= Len(tags)
    /\ LET tag == tags[i] IN
       IF tag.wf # "ok"
       THEN \* tag['name'] or tag['commit']['url'] outside the try
            /\ exc' = "KeyError"
            /\ pc' = "raised"
            /\ UNCHANGED <<i, tags_with_time, events>>
       ELSE \E net \in NetOutcomes, body \in CommitBodies :
            LET r == SafeRequest("GET", net)
                req == [kind |-> "commit", tag |-> tag.name, err |-> r.err,
                        headers |-> GITHUB_HEADERS(token)]
                nap == [kind |-> "sleep", tag |-> tag.name, err |-> "",
                        headers |-> {}]
            IN
            IF ~r.ok
            THEN /\ tags_with_time' = OnCommitError(tags_with_time, tag)
                 /\ events' = Append(events, req)
                 /\ i' = NextIndex(i)
                 /\ UNCHANGED <<pc, exc>>
            ELSE IF body.kind # "ok"
            THEN /\ exc' = CommitException(body.kind)
                 /\ pc' = "raised"
                 /\ events' = Append(events, req)
                 /\ UNCHANGED <<i, tags_with_time>>
            ELSE /\ tags_with_time' = Append(tags_with_time, Enriched(tag, body))
                 /\ events' = IF SleepNeeded(i, Len(tags))
                              THEN events \o <<req, nap>>
                              ELSE Append(events, req)
                 /\ i' = i + 1
                 /\ UNCHANGED <<pc, exc>>
    /\ UNCHANGED <<token, tags, result, latest_version, runs, fetched,
                   dl_requests, files, success_count, main_ret, exit_code>>
    /\ UNCHANGED uvars

\* Lines 229-233: the sort (in place) and the return.
SortAndReturn ==
    /\ pc = "loop"
    /\ i > Len(tags)
    /\ tags_with_time' = SortReverse(tags_with_time)
    /\ result' = TagList(tags_with_time')
    /\ pc' = "check"
    /\ UNCHANGED <<token, tags, i, events, exc, latest_version, runs, fetched,
                   dl_requests, files, success_count, main_ret, exit_code>>
    /\ UNCHANGED uvars

\* ---------------------------------------------------------- download_file
\* The headers argument of download_file: given or left out (None).
NoHeaders == [given |-> FALSE, h |-> {}]
Given(h) == [given |-> TRUE, h |-> h]

\* Lines 60-61: headers left out default to GITHUB_HEADERS.
DefaultHeaders(arg, t) == IF arg.given THEN arg.h ELSE GITHUB_HEADERS(t)

\* What happens to one download: the HEAD probe fails, the content-length
\* header is not a number, the streaming GET fails, writing the file fails,
\* or all succeed.
DlOutcomes == {"ok", "head_fail", "bad_length", "get_fail", "write_fail"}

\* Lines 58-97: the requests download_file issues, whether the file was
\* opened for writing, and how the call ends (the path is returned, or an
\* exception leaves: DownloadError from safe_request, ValueError from int(),
\* OSError from the file).
DownloadFile(by, file, arg, t, out) ==
    LET h == DefaultHeaders(arg, t)
        head == [by |-> by, fn |-> "download_file", method |-> "HEAD",
                 headers |-> h, explicit |-> arg.given]
        get == [head EXCEPT !.method = "GET"]
    IN  CASE out = "head_fail" ->
               [requests |-> {head}, opened |-> FALSE, ok |-> FALSE, exc |-> "DownloadError"]
          [] out = "bad_length" ->
               [requests |-> {head}, opened |-> FALSE, ok |-> FALSE, exc |-> "ValueError"]
          [] out = "get_fail" ->
               [requests |-> {head, get}, opened |-> FALSE, ok |-> FALSE, exc |-> "DownloadError"]
          [] out = "write_fail" ->
               [requests |-> {head, get}, opened |-> TRUE, ok |-> FALSE, exc |-> "OSError"]
          [] OTHER ->
               [requests |-> {head, get}, opened |-> TRUE, ok |-> TRUE, exc |-> "none"]

\* A run of download_file calls in sequence, stopping at the first one that
\* raises: the requests issued, the files opened, the artifacts fetched,
\* whether every call returned, and the exception that ended the run.
RECURSIVE DownloadAll(_, _, _, _, _)
DownloadAll(by, names, arg, t, outs) ==
    IF names = <<>>
    THEN [requests |-> {}, opened |-> {}, fetched |-> {}, ok |-> TRUE, exc |-> "none"]
    ELSE LET d == DownloadFile(by, Head(names), arg, t, Head(outs)) IN
         IF ~d.ok
         THEN [requests |-> d.requests,
               opened |-> IF d.opened THEN {Head(names)} ELSE {},
               fetched |-> {}, ok |-> FALSE, exc |-> d.exc]
         ELSE LET rest == DownloadAll(by, Tail(names), arg, t, Tail(outs)) IN
              [requests |-> d.requests \cup rest.requests,
               opened |-> {Head(names)} \cup rest.opened,
               fetched |-> {Head(names)} \cup rest.fetched,
               ok |-> rest.ok, exc |-> rest.exc]

\* The request a source routine issues itself, through safe_request.
ApiRequest(by, h) ==
    [by |-> by, fn |-> "safe_request", method |-> "GET", headers |-> h,
     explicit |-> TRUE]

\* The subsequences of a sequence (the asset lists a release may hold).
RECURSIVE SubSeqs(_)
SubSeqs(s) ==
    IF s = <<>> THEN {<<>>}
    ELSE LET r == SubSeqs(Tail(s)) IN r \cup {<<Head(s)>> \o x : x \in r}

\* The elements of s that satisfy Keep, in order.
RECURSIVE SelectIn(_, _)
SelectIn(s, keep) ==
    IF s = <<>> THEN <<>>
    ELSE IF Head(s) \in keep THEN <<Head(s)>> \o SelectIn(Tail(s), keep)
    ELSE SelectIn(Tail(s), keep)

\* The body of a latest-release or DistributionInfo response.
BadBodies == {"not_json", "missing_key"}
ReleaseBodies(names) == [kind : {"ok"}, assets : SubSeqs(names)]
                        \cup [kind : BadBodies, assets : {<<>>}]

BodyException(kind) == IF kind = "not_json" THEN "JSONDecodeError" ELSE "KeyError"

\* The outcomes of n downloads in sequence.
Outcomes(n) == [1..n -> DlOutcomes]

\* -------------------------------------------------------- source routines
\* What the body of a routine's try block did: the value it returned (when
\* no exception was raised), the exception raised in it ("none" if none),
\* and its effects.
Tried(ret, raised, requests, opened, got) ==
    [ret |-> ret, raised |-> raised, requests |-> requests,
     opened |-> opened, fetched |-> got]

\* "except Exception" (lines 121, 142, 162, 176) catches every exception of
\* the model; the routine then returns False.
\* (faulty variant: the handler catches DownloadError only)
CaughtOnlyDownloadError(e) == e = "DownloadError"
Caught(e) == TRUE

\* The artifacts each routine is meant to fetch.
DockerDesktopFiles == {"app-Windows-x86.asar", "app-Windows-x86-v2beta.asar",
                       "DockerDesktop-TAG-Windows-x86.exe"}
WSLFile == "wsl.TAG.0.x64.msi"
WSL2Files == <<"ubuntu", "debian">>
DockerScript == "docker.sh"

\* The asset names a latest-release response may list, TAG being the
\* tag_name of that response.
DockerDesktopAssets == <<"app-Windows-x86.asar", "app-Windows-x86-v2beta.asar",
                         "DockerDesktop-TAG-Windows-x86.exe", "checksums.txt">>
WSLAssets == <<"wsl.TAG.0.arm64.msi", "wsl.TAG.0.x64.msi">>

\* Lines 102-120.
TryDockerDesktop(t, net, body, outs) ==
    LET api == ApiRequest("get_DockerDesktop", GITHUB_HEADERS(t))
        r == SafeRequest("GET", net)
    IN  IF ~r.ok THEN Tried(FALSE, "DownloadError", {api}, {}, {})
        ELSE IF body.kind # "ok"
        THEN Tried(FALSE, BodyException(body.kind), {api}, {}, {})
        ELSE LET wanted == SelectIn(body.assets, DockerDesktopFiles)
                 d == DownloadAll("get_DockerDesktop", wanted, NoHeaders, t, outs)
             IN  Tried(TRUE, d.exc, {api} \cup d.requests, d.opened, d.fetched)

\* Lines 128-141.
TryWSL(t, net, body, outs) ==
    LET api == ApiRequest("get_WSL", GITHUB_HEADERS(t))
        r == SafeRequest("GET", net)
    IN  IF ~r.ok THEN Tried(FALSE, "DownloadError", {api}, {}, {})
        ELSE IF body.kind # "ok"
        THEN Tried(FALSE, BodyException(body.kind), {api}, {}, {})
        ELSE LET wanted == SelectIn(body.assets, {WSLFile}) IN
             IF wanted = <<>> THEN Tried(FALSE, "none", {api}, {}, {})
             ELSE LET d == DownloadAll("get_WSL", <<Head(wanted)>>, NoHeaders, t, outs)
                  IN  Tried(TRUE, d.exc, {api} \cup d.requests, d.opened, d.fetched)

\* Lines 149-161.
TryWSL2(t, net, kind, outs) ==
    LET api == ApiRequest("get_WSL2", BROWSER_HEADERS)
        r == SafeRequest("GET", net)
    IN  IF ~r.ok THEN Tried(FALSE, "DownloadError", {api}, {}, {})
        ELSE IF kind # "ok"
        THEN Tried(FALSE, BodyException(kind), {api}, {}, {})
        ELSE LET d == DownloadAll("get_WSL2", WSL2Files, Given(BROWSER_HEADERS), t, outs)
             IN  Tried(TRUE, d.exc, {api} \cup d.requests, d.opened, d.fetched)

\* Lines 169-175.
TryDocker(t, outs) ==
    LET d == DownloadAll("get_docker", <<DockerScript>>, Given(BROWSER_HEADERS), t, outs)
    IN  Tried(TRUE, d.exc, d.requests, d.opened, d.fetched)

\* main, lines 274-281: the routine is called; an exception its handler
\* catches makes it return False; success_count counts the True results.
CallRoutine(name, next, tr) ==
    /\ pc = name
    /\ dl_requests' = dl_requests \cup tr.requests
    /\ files' = files \cup tr.opened
    /\ fetched' = tr.fetched
    /\ IF tr.raised # "none" /\ ~Caught(tr.raised)
       THEN /\ exc' = tr.raised
            /\ pc' = "raised"
            /\ UNCHANGED <<runs, success_count>>
       ELSE LET ret == IF tr.raised = "none" THEN tr.ret ELSE FALSE IN
            /\ runs' = Append(runs, [routine |-> name, ret |-> ret])
            /\ success_count' = IF ret THEN success_count + 1 ELSE success_count
            /\ pc' = next
            /\ UNCHANGED exc
    /\ UNCHANGED <<token, tags, i, tags_with_time, result, events,
                   latest_version, main_ret, exit_code>>
    /\ UNCHANGED uvars

get_DockerDesktop ==
    \E net \in NetOutcomes :
        IF ~SafeRequest("GET", net).ok
        THEN CallRoutine("get_DockerDesktop", "get_WSL",
                         TryDockerDesktop(token, net, [kind |-> "ok", assets |-> <<>>], <<>>))
        ELSE \E body \in ReleaseBodies(DockerDesktopAssets) :
             \E outs \in Outcomes(Len(SelectIn(body.assets, DockerDesktopFiles))) :
                CallRoutine("get_DockerDesktop", "get_WSL",
                            TryDockerDesktop(token, net, body, outs))

get_WSL ==
    \E net \in NetOutcomes :
        IF ~SafeRequest("GET", net).ok
        THEN CallRoutine("get_WSL", "get_WSL2",
                         TryWSL(token, net, [kind |-> "ok", assets |-> <<>>], <<>>))
        ELSE \E body \in ReleaseBodies(WSLAssets), outs \in Outcomes(1) :
                CallRoutine("get_WSL", "get_WSL2", TryWSL(token, net, body, outs))

get_WSL2 ==
    \E net \in NetOutcomes :
        IF ~SafeRequest("GET", net).ok
        THEN CallRoutine("get_WSL2", "get_docker", TryWSL2(token, net, "ok", <<>>))
        ELSE \E kind \in {"ok"} \cup BadBodies, outs \in Outcomes(Len(WSL2Files)) :
                CallRoutine("get_WSL2", "get_docker", TryWSL2(token, net, kind, outs))

get_docker ==
    \E outs \in Outcomes(1) :
        CallRoutine("get_docker", "count", TryDocker(token, outs))

\* ------------------------------------------------------------------- main
\* Line 245: isinstance(result, dict) and 'error' in result.
IsErrorResult(r) == r.shape = "dict"

\* Lines 245-251: main stops before the downloads on an error dict and on
\* an empty list.
\* (faulty variant: the empty list is not checked)
StopsEarlyOnlyOnError(r) == IsErrorResult(r)
StopsEarly(r) == IsErrorResult(r) \/ r.items = <<>>

\* Line 284: success_count >= 4.
\* (faulty variant: one success is enough)
EnoughAny(n) == n >= 1
Enough(n) == n >= 4

\* Lines 244-268: the checks of the resolver's result; on a non-empty list
\* latest_version = result[0]['name'].  Nothing reads result, or the
\* resolver's locals, after line 264: they are dropped here.
MainCheck ==
    /\ pc = "check"
    /\ IF StopsEarly(result)
       THEN /\ main_ret' = <<0 - 1>>
            /\ pc' = "returned"
            /\ UNCHANGED <<tags, i, tags_with_time, result, events, exc,
                           latest_version>>
       ELSE IF result.items = <<>>
       THEN \* result[0] on an empty list or on the error dict
            /\ exc' = IF IsErrorResult(result) THEN "KeyError" ELSE "IndexError"
            /\ pc' = "raised"
            /\ UNCHANGED <<tags, i, tags_with_time, result, events, main_ret,
                           latest_version>>
       ELSE /\ latest_version' = <<result.items[1].name>>
            /\ pc' = "get_DockerDesktop"
            /\ tags' = <<>>
            /\ i' = 0
            /\ tags_with_time' = <<>>
            /\ events' = <<>>
            /\ result' = NoResult
            /\ UNCHANGED <<main_ret, exc>>
    /\ UNCHANGED <<token, runs, fetched, dl_requests, files, success_count,
                   exit_code>>
    /\ UNCHANGED uvars

\* Lines 282-292: the overall status.
MainReturn ==
    /\ pc = "count"
    /\ main_ret' = IF Enough(success_count) THEN <<0>> ELSE <<0 - 1>>
    /\ pc' = "returned"
    /\ UNCHANGED <<token, tags, i, tags_with_time, result, events, exc,
                   latest_version, runs, fetched, dl_requests, files,
                   success_count, exit_code>>
    /\ UNCHANGED uvars

\* Lines 295-307: the process exits with main's status, or with -1 when an
\* exception left main.
Exit ==
    /\ pc \in {"returned", "raised"}
    /\ exit_code' = IF pc = "returned" THEN main_ret ELSE <<0 - 1>>
    /\ pc' = "exited"
    /\ UNCHANGED <<token, tags, i, tags_with_time, result, events, exc,
                   latest_version, runs, fetched, dl_requests, files,
                   success_count, main_ret>>
    /\ UNCHANGED uvars

Next ==
    \/ ListTags
    \/ EnrichTag
    \/ SortAndReturn
    \/ MainCheck
    \/ get_DockerDesktop
    \/ get_WSL
    \/ get_WSL2
    \/ get_docker
    \/ MainReturn
    \/ Exit

Spec == Init /\ [][Next]_vars

\* Every network call returns or fails within its timeout and every delay
\* elapses: a step that can be taken is taken.
SpecLive == Init /\ [][Next]_vars /\ WF_vars(Next)


\* ================================================================ one call
\* safe_request and download_file taken alone: one call with arguments
\* drawn from small sets, stepped through request by request and chunk by
\* chunk.

\* Largest number of chunks iter_content yields, and the longest chunk.
MaxChunks == 2
MaxChunkLen == 1
\* Longest file already present at the destination.
MaxPrev == 1

\* ------------------------------------------------------- size formatting
\* total_size > k * 1024
\* (faulty variant: the comparison is >=)
GreaterOrEqualKib(n, k) == n.kib >= k
GreaterKib(n, k) == n.kib > k \/ (n.kib = k /\ n.rem > 0)

\* f"{x:.1f}" rounds to the nearest tenth, an exact tie to the even digit.
RoundHalfEven(q, num, half) ==
    IF num > half \/ (num = half /\ q % 2 = 1) THEN q + 1 ELSE q

\* f"{total_size / (1024 * e):.1f}": the number of tenths of
\* n / (1024 * e), e a power of 1024, computed on kib and rem.
Tenths(n, e) ==
    LET a == 10 * n.kib + (10 * n.rem) \div 1024
        r == (10 * n.rem) % 1024
    IN  RoundHalfEven(a \div e, (a % e) * 1024 + r, e * 512)

OneDecimal(n, e, unit) ==
    [int |-> Tenths(n, e) \div 10, frac |-> <<Tenths(n, e) % 10>>, unit |-> unit]

\* Lines 74-81.
FormatSize(n) ==
    IF GreaterKib(n, 1024 * 1024) THEN OneDecimal(n, 1024 * 1024, "GB")
    ELSE IF GreaterKib(n, 1024) THEN OneDecimal(n, 1024, "MB")
    ELSE IF GreaterKib(n, 1) THEN OneDecimal(n, 1, "KB")
    ELSE [int |-> n.kib * 1024 + n.rem, frac |-> <<>>, unit |-> "bytes"]

\* The content lengths a HEAD response declares.
SampleSizes == {Bytes(0, 0), Bytes(0, 500), Bytes(1, 0), Bytes(1, 1), Bytes(1, 256),
                Bytes(2, 0), Bytes(1024, 0), Bytes(1024, 1), Bytes(5 * 1024, 0),
                Bytes(1024 * 1024, 0), Bytes(1024 * 1024, 1), Bytes(2 * 1024 * 1024, 0)}

\* The content-length header of the HEAD response: a number, absent, or
\* text that is no number.
ContentLengths == [kind : {"number"}, n : SampleSizes]
                  \cup [kind : {"absent", "garbage"}, n : {Bytes(0, 0)}]

\* Line 71: int(response_head.headers.get('content-length', 0)).
DeclaredSize(cl) == IF cl.kind = "number" THEN cl.n ELSE Bytes(0, 0)

\* ------------------------------------------------------------- the calls
Urls == {"https://a/x.bin", "https://b/y.bin"}

\* Line 64: url.split('/')[-1].
LastSegment(url) == IF url = "https://a/x.bin" THEN "x.bin" ELSE "y.bin"

\* Lines 63-66: filepath.
FilePath(c) == IF c.filename = "" THEN LastSegment(c.url) ELSE c.filename

Methods == {"GET", "POST", "DELETE", "HEAD", "head", "PUT"}

\* method.upper()
Upper(m) == IF m = "head" THEN "HEAD" ELSE m

Calls ==
    [fn : {"safe_request"}, method : Methods, url : Urls, filename : {""},
     headers : {NoHeaders, Given(BROWSER_HEADERS)}]
    \cup
    [fn : {"download_file"}, method : {""}, url : Urls, filename : {"", "docker.sh"},
     headers : {NoHeaders, Given(BROWSER_HEADERS)}]

\* What the network answers: a response with a status code, or a failure
\* of the requests library.
Statuses == {101, 200, 302, 404, 503}
Responses == [kind : {"status"}, code : Statuses]
             \cup [kind : {"timeout", "connection", "other"}, code : {0}]

NetOf(resp) ==
    IF resp.kind # "status" THEN resp.kind
    ELSE CASE resp.code \div 100 = 1 -> "1xx"
           [] resp.code \div 100 = 2 -> "2xx"
           [] resp.code \div 100 = 3 -> "3xx"
           [] resp.code \div 100 = 4 -> "4xx"
           [] OTHER -> "5xx"

\* Lines 48-55: the message of the DownloadError safe_request raises.
Message(method, resp, url) ==
    LET r == SafeRequest(method, NetOf(resp)) IN
    CASE r.err = "timeout" -> [kind |-> "timeout", code |-> 0, url |-> url, detail |-> ""]
      [] r.err = "connection" -> [kind |-> "connection", code |-> 0, url |-> url, detail |-> ""]
      [] r.err = "http" -> [kind |-> "http", code |-> resp.code, url |-> url, detail |-> ""]
      [] OTHER -> [kind |-> "unknown", code |-> 0, url |-> "",
                   detail |-> IF r.sent THEN "other" ELSE "unsupported method"]

Raised(e, msg) == [kind |-> "raised", exc |-> e, msg |-> msg, path |-> ""]
Returned(path) == [kind |-> "returned", exc |-> "none", msg |-> NoMessage, path |-> path]

\* The files that may be at the destination before the call; a byte
\* written earlier is "old", a byte of the streamed body is "new".
PriorFiles == {NoFile} \cup
              {[exists |-> TRUE, content |-> [k \in 1..n |-> "old"]] : n \in 0..MaxPrev}

\* The chunk lengths iter_content may yield.
RECURSIVE ChunkSeqs(_)
ChunkSeqs(n) ==
    IF n = 0 THEN {<<>>}
    ELSE ChunkSeqs(n - 1) \cup
         {Append(c, k) : c \in {x \in ChunkSeqs(n - 1) : Len(x) = n - 1},
                         k \in 0..MaxChunkLen}

\* open(filepath, 'wb'): the file is created or truncated.
\* (faulty variant: the file is opened for appending)
OpenAppend(d) == [exists |-> TRUE, content |-> d.content]
OpenWb(d) == [exists |-> TRUE, content |-> <<>>]

\* Lines 90-91: a chunk is written unless it is empty.
\* (faulty variant: each chunk is written from the start of the file)
WriteChunkOver(d, k) == [d EXCEPT !.content = [j \in 1..k |-> "new"]]
WriteChunk(d, k) == [d EXCEPT !.content = d.content \o [j \in 1..k |-> "new"]]

\* One HTTP request as it left the program, with what came back: the
\* response or failure, and the content-length header of the response.
NoLength == [kind |-> "absent", n |-> Bytes(0, 0)]
Request(method, headers, streamed, resp, cl) ==
    [method |-> method, headers |-> headers, stream |-> streamed, resp |-> resp,
     length |-> IF resp.kind = "status" THEN cl ELSE NoLength]

InitCall ==
    /\ token = FALSE
    /\ pc = "call"
    /\ tags = <<>>
    /\ i = 0
    /\ tags_with_time = <<>>
    /\ result = NoResult
    /\ events = <<>>
    /\ exc = "none"
    /\ latest_version = <<>>
    /\ runs = <<>>
    /\ fetched = {}
    /\ dl_requests = {}
    /\ files = {}
    /\ success_count = 0
    /\ main_ret = <<>>
    /\ exit_code = <<>>
    /\ call \in Calls
    /\ upc = "start"
    /\ http = <<>>
    /\ total_size = Bytes(0, 0)
    /\ size_str = NoSizeStr
    /\ stream = <<>>
    /\ chunk_no = 0
    /\ before \in PriorFiles
    /\ disk = before
    /\ outcome = NoOutcome

\* Lines 32-55: one call of safe_request.
SafeRequestCall ==
    /\ call.fn = "safe_request"
    /\ upc = "start"
    /\ \E resp \in Responses :
        LET r == SafeRequest(Upper(call.method), NetOf(resp)) IN
        /\ http' = IF r.sent
                   THEN Append(http, Request(Upper(call.method), call.headers.h,
                                             FALSE, resp, NoLength))
                   ELSE http
        /\ outcome' = IF r.ok THEN Returned("")
                      ELSE Raised("DownloadError",
                                  Message(Upper(call.method), resp, call.url))
    /\ upc' = "done"
    /\ UNCHANGED <<call, total_size, size_str, stream, chunk_no, before, disk>>
    /\ UNCHANGED mvars

\* Lines 60-83: the HEAD probe and the size shown.
DownloadHead ==
    /\ call.fn = "download_file"
    /\ upc = "start"
    /\ \E resp \in Responses, cl \in ContentLengths :
        LET r == SafeRequest("HEAD", NetOf(resp)) IN
        /\ http' = Append(http, Request("HEAD", DefaultHeaders(call.headers, token),
                                        FALSE, resp, cl))
        /\ IF ~r.ok
           THEN /\ outcome' = Raised("DownloadError", Message("HEAD", resp, call.url))
                /\ upc' = "done"
                /\ UNCHANGED <<total_size, size_str>>
           ELSE IF cl.kind = "garbage"
           THEN /\ outcome' = Raised("ValueError", NoMessage)
                /\ upc' = "done"
                /\ UNCHANGED <<total_size, size_str>>
           ELSE /\ total_size' = DeclaredSize(cl)
                /\ size_str' = FormatSize(DeclaredSize(cl))
                /\ upc' = "get"
                /\ UNCHANGED outcome
    /\ UNCHANGED <<call, stream, chunk_no, before, disk>>
    /\ UNCHANGED mvars

\* Lines 86-88: the streaming GET and the opening of the file.
DownloadGet ==
    /\ upc = "get"
    /\ \E resp \in Responses, chunks \in ChunkSeqs(MaxChunks), canOpen \in BOOLEAN :
        LET r == SafeRequest("GET", NetOf(resp)) IN
        /\ http' = Append(http, Request("GET", DefaultHeaders(call.headers, token),
                                        TRUE, resp, NoLength))
        /\ IF ~r.ok
           THEN /\ outcome' = Raised("DownloadError", Message("GET", resp, call.url))
                /\ upc' = "done"
                /\ UNCHANGED <<stream, disk>>
           ELSE IF ~canOpen
           THEN /\ outcome' = Raised("OSError", NoMessage)
                /\ upc' = "done"
                /\ UNCHANGED <<stream, disk>>
           ELSE /\ disk' = OpenWb(disk)
                /\ stream' = chunks
                /\ upc' = "stream"
                /\ UNCHANGED outcome
    /\ UNCHANGED <<call, total_size, size_str, chunk_no, before>>
    /\ UNCHANGED mvars

\* Lines 89-91: the next chunk arrives and is written, or the connection
\* breaks while the body is read (iter_content raises), or the write fails.
DownloadChunk ==
    /\ upc = "stream"
    /\ chunk_no < Len(stream)
    /\ \E ev \in {"chunk", "broken", "write_error"} :
        IF ev = "chunk"
        THEN /\ disk' = WriteChunk(disk, stream[chunk_no + 1])
             /\ chunk_no' = chunk_no + 1
             /\ UNCHANGED <<upc, outcome>>
        ELSE /\ outcome' = Raised(IF ev = "broken" THEN "ChunkedEncodingError"
                                  ELSE "OSError", NoMessage)
             /\ upc' = "done"
             /\ UNCHANGED <<chunk_no, disk>>
    /\ UNCHANGED <<call, http, total_size, size_str, stream, before>>
    /\ UNCHANGED mvars

\* Lines 93-94: the body has been read to its end; the path is returned.
DownloadReturn ==
    /\ upc = "stream"
    /\ chunk_no = Len(stream)
    /\ outcome' = Returned(FilePath(call))
    /\ upc' = "done"
    /\ UNCHANGED <<call, http, total_size, size_str, stream, chunk_no, before, disk>>
    /\ UNCHANGED mvars

NextCall ==
    \/ SafeRequestCall
    \/ DownloadHead
    \/ DownloadGet
    \/ DownloadChunk
    \/ DownloadReturn

SpecCall == InitCall /\ [][NextCall]_vars

\* ------------------------------------------------------------- properties
Routines == <<"get_DockerDesktop", "get_WSL", "get_WSL2", "get_docker">>

\* The resolver has returned a list and main has not yet gone past its check.
ResolvedList == pc = "check" /\ result.shape = "list"

\* The listed tags whose commit request returned a response.
CommitOk == {events[k].tag : k \in {j \in 1..Len(events) :
                                        events[j].kind = "commit" /\ events[j].err = ""}}
CommitRequested == {events[k].tag : k \in {j \in 1..Len(events) :
                                               events[j].kind = "commit"}}
Delays == Cardinality({k \in 1..Len(events) : events[k].kind = "sleep"})

\* C1: the resolved sequence is ordered newest-first by the instant of the
\* commit timestamps (also across different UTC offsets), and tags of equal
\* timestamp keep their listing order.
C1_NewestFirstByInstant ==
    ResolvedList =>
        \A a, b \in 1..Len(result.items) :
            a < b =>
                LET ta == InstantOf(result.items[a].commit_date)
                    tb == InstantOf(result.items[b].commit_date)
                IN  /\ ta >= tb
                    /\ ta = tb => result.items[a].name < result.items[b].name

\* C2: resolving N >= 1 tags issues exactly N-1 delays, whatever the
\* pattern of per-tag success and failure.
C2_ExactlyNMinusOneDelays ==
    ResolvedList /\ Len(tags) >= 1 => Delays = Len(tags) - 1

\* C3: when the tag list was fetched, the resolved sequence holds exactly
\* once each the listed tags whose commit request succeeded, and a failed
\* commit request does not keep the later tags from being requested.
C3_ExactlySucceededTags ==
    ResolvedList =>
        /\ {result.items[k].name : k \in 1..Len(result.items)} = CommitOk
        /\ Len(result.items) = Cardinality(CommitOk)
        /\ CommitRequested = 1..Len(tags)

C3_Witness ==
    /\ ResolvedList
    /\ Len(tags) = 2
    /\ events[2].kind = "commit" /\ events[2].tag = 1 /\ events[2].err # ""
    /\ Len(result.items) = 1 /\ result.items[1].name = 2

\* C4: every call of the resolver ends by returning a sequence or an error
\* record; no exception escapes it.
C4_NoExceptionEscapesResolver ==
    ~(pc = "raised" /\ latest_version = <<>> /\ result.shape = "none")

\* C5: a failed tag-list request makes the resolver return at once the
\* error record with the failure message, with no commit request, no delay
\* and no partial result; a list that resolves to zero tags returns the
\* empty list, a value of another shape.
C5_ListFailureIsErrorRecord ==
    /\ (events # <<>> /\ events[1].err # "") =>
          /\ pc # "loop"
          /\ result = ErrorDict(events[1].err)
          /\ result # TagList(<<>>)
          /\ Len(events) = 1
          /\ tags_with_time = <<>>
    /\ (pc = "check" /\ events[1].err = "") => result.shape = "list"

C5_Witness ==
    pc = "check" /\ result.shape = "dict" /\ result.error = "timeout"

\* C6: main returns 0 exactly when the resolution gave a non-empty sequence
\* and each of the four source routines returned True.
C6_ZeroIffAllFourSucceed ==
    main_ret # <<>> =>
        (main_ret = <<0>> <=>
            /\ latest_version # <<>>
            /\ Len(runs) = 4
            /\ \A k \in 1..Len(runs) : runs[k].ret)

C6_Witness ==
    /\ main_ret = <<0 - 1>>
    /\ Len(runs) = 4
    /\ runs[1].ret /\ runs[2].ret /\ ~runs[3].ret /\ runs[4].ret

\* C7: on an error record or an empty sequence main returns a failure
\* status and calls no source routine: no request of a routine, no HEAD
\* probe, no streaming GET and no file write happens in such a run.
C7_EarlyStopDownloadsNothing ==
    /\ (pc # "check" /\ (result.shape = "dict" \/ result = TagList(<<>>))) =>
          /\ main_ret = <<0 - 1>>
          /\ runs = <<>>
          /\ dl_requests = {}
          /\ files = {}
    /\ (runs # <<>> \/ dl_requests # {} \/ files # {}) => latest_version # <<>>

C7_Witness ==
    /\ pc = "exited"
    /\ result = TagList(<<>>)
    /\ Len(tags) >= 1
    /\ runs = <<>>

\* C8: after a non-empty resolution main calls the four source routines
\* once each in the fixed order, whatever the earlier ones did: no
\* exception of a routine leaves it.
C8_AllFourInOrder ==
    latest_version # <<>> =>
        /\ pc # "raised"
        /\ Len(runs) <= 4
        /\ \A k \in 1..Len(runs) : runs[k].routine = Routines[k]
        /\ pc \in {"count", "returned", "exited"} => Len(runs) = 4
        /\ pc \in {"get_DockerDesktop", "get_WSL", "get_WSL2", "get_docker"} =>
              pc = Routines[Len(runs) + 1]

C8_Witness ==
    /\ pc = "returned"
    /\ Len(runs) = 4
    /\ ~runs[1].ret /\ ~runs[2].ret /\ ~runs[3].ret /\ runs[4].ret
    /\ files # {}

\* The artifacts a routine is meant to fetch.
Meant(routine) ==
    CASE routine = "get_DockerDesktop" -> DockerDesktopFiles
      [] routine = "get_WSL" -> {WSLFile}
      [] routine = "get_WSL2" -> {WSL2Files[1], WSL2Files[2]}
      [] OTHER -> {DockerScript}

\* C9: a source routine returns True only when every artifact it is meant
\* to fetch was downloaded in that call.
C9_TrueOnlyOnFullSuccess ==
    runs # <<>> =>
        (runs[Len(runs)].ret => Meant(runs[Len(runs)].routine) \subseteq fetched)

DownloadRequests == {r \in dl_requests : r.fn = "download_file"}

\* C10 as stated: no request of download_file carries the Authorization
\* header unless the caller passed the credential headers.
C10_NoAuthorizationOnDownloads ==
    \A r \in DownloadRequests : "Authorization" \in r.headers => r.explicit

\* C10: a request of download_file carries the Authorization header exactly
\* when the token is configured and the caller left the headers out, as
\* get_DockerDesktop and get_WSL do (the default is GITHUB_HEADERS); the
\* downloads of get_WSL2 and get_docker, which pass BROWSER_HEADERS, never do.
C10_AuthorizationOnlyByDefault ==
    \A r \in DownloadRequests :
        /\ "Authorization" \in r.headers <=> (token /\ ~r.explicit)
        /\ r.explicit <=> r.by \in {"get_WSL2", "get_docker"}

C10_Witness ==
    /\ token
    /\ \E r \in DownloadRequests :
          r.by = "get_DockerDesktop" /\ r.method = "GET" /\ "Authorization" \in r.headers
    /\ \E r \in DownloadRequests :
          r.by = "get_docker" /\ r.method = "GET" /\ "Authorization" \notin r.headers

\* ------------------------------------------------- properties of one call
RECURSIVE Sum(_)
Sum(seq) == IF seq = <<>> THEN 0 ELSE Head(seq) + Sum(Tail(seq))

IsDownload == call.fn = "download_file"
IsSafeRequest == call.fn = "safe_request"

\* The chunks read so far.
ChunksRead == SubSeq(stream, 1, chunk_no)

\* The request completed without error: a response came back and its
\* status is below 400.
Completed(req) == req.resp.kind = "status" /\ req.resp.code < 400

ProbeFailed == IsDownload /\ Len(http) >= 1 /\ ~Completed(http[1])

\* C11 (as stated): the destination file has the length of the streamed
\* chunks also when the HEAD probe failed.
C11_LengthIsSumEvenIfProbeFailed ==
    ProbeFailed /\ upc = "done" =>
        disk.exists /\ Len(disk.content) = Sum(ChunksRead)

\* C11 (amended): whenever download_file returns, the destination file has
\* the length of all the streamed chunks together, whatever content length
\* the HEAD probe declared (absent, zero, or any other value); while the body
\* is streamed the file has the length of the chunks read so far; when the
\* HEAD probe fails the call raises, issues no GET and writes nothing.
C11_LengthIsSumOfChunksOnceProbed ==
    IsDownload =>
        /\ outcome.kind = "returned" =>
               disk.exists /\ Len(disk.content) = Sum(stream)
        /\ upc = "stream" => disk.exists /\ Len(disk.content) = Sum(ChunksRead)
        /\ ProbeFailed =>
               outcome.kind = "raised" /\ Len(http) = 1 /\ disk = before

C11_Witness ==
    /\ IsDownload
    /\ outcome.kind = "returned"
    /\ http[1].length.kind = "number"
    /\ total_size = Bytes(1, 0)
    /\ stream = <<1, 1>>
    /\ Len(disk.content) = 2

\* C12: a call of download_file returns the local path or fails with a
\* DownloadError; no other exception escapes it.
C12_OnlyDownloadErrorEscapes ==
    IsDownload /\ upc = "done" =>
        \/ outcome.kind = "returned" /\ outcome.path = FilePath(call)
        \/ outcome.kind = "raised" /\ outcome.exc = "DownloadError"

\* C13: safe_request returns a response only when the request completed
\* without error; every failure (timeout, connection failure, HTTP status
\* error, unsupported method, any other exception) reaches the caller as
\* one DownloadError.
C13_EveryFailureIsOneDownloadError ==
    IsSafeRequest /\ upc = "done" =>
        /\ outcome.kind \in {"returned", "raised"}
        /\ outcome.kind = "returned" <=> (Len(http) = 1 /\ Completed(http[1]))
        /\ outcome.kind = "raised" =>
               /\ outcome.exc = "DownloadError"
               /\ outcome.msg.kind \in {"timeout", "connection", "http", "unknown"}

C13_Witness ==
    /\ IsSafeRequest
    /\ upc = "done"
    /\ Len(http) = 1
    /\ http[1].resp.kind = "other"
    /\ outcome.kind = "raised"
    /\ outcome.exc = "DownloadError"

\* The one request of a safe_request call came back with a status.
Answered == IsSafeRequest /\ upc = "done" /\ Len(http) = 1
            /\ http[1].resp.kind = "status"

HttpError(code, url) == [kind |-> "http", code |-> code, url |-> url, detail |-> ""]

\* C14 (as stated): safe_request fails with the HTTP-status error for every
\* status that is not 2xx, 1xx and 3xx included, and returns the response
\* only for a 2xx status.
C14_HttpErrorForEveryNon2xx ==
    Answered =>
        IF http[1].resp.code \div 100 = 2
        THEN outcome.kind = "returned"
        ELSE /\ outcome.kind = "raised"
             /\ outcome.msg = HttpError(http[1].resp.code, call.url)

\* C14 (amended): safe_request fails with the HTTP-status error, carrying
\* the status code and the url, for every 4xx and 5xx status, and returns
\* the response for every other status (1xx, 2xx, 3xx).
C14_HttpErrorOnlyFor4xx5xx ==
    Answered =>
        IF http[1].resp.code >= 400
        THEN /\ outcome.kind = "raised"
             /\ outcome.msg = HttpError(http[1].resp.code, call.url)
        ELSE outcome.kind = "returned"

C14_Witness ==
    /\ Answered
    /\ http[1].resp.code = 302
    /\ outcome.kind = "returned"

\* C15: a call with a method other than GET, POST, DELETE or HEAD issues no
\* HTTP request and fails with an error whose kind is none of the kinds
\* reported for network failures.
C15_UnsupportedMethodIsDistinctKind ==
    (IsSafeRequest /\ upc = "done"
     /\ Upper(call.method) \notin {"GET", "POST", "DELETE", "HEAD"}) =>
        /\ http = <<>>
        /\ outcome.kind = "raised"
        /\ outcome.msg.kind \notin {"timeout", "connection", "http", "unknown"}

\* The requests of the resolver, in the order they were issued.
IsRequest(e) == e.kind # "sleep"
ResolverRequests == SelectSeq(events, IsRequest)

\* C16: resolving a list of N tags issues one tag-list request followed by
\* exactly N commit requests, one per listed tag in listing order.
C16_OneListThenNCommitRequests ==
    (pc \in {"check", "raised"} /\ tags # <<>>) =>
        /\ Len(ResolverRequests) = Len(tags) + 1
        /\ ResolverRequests[1].kind = "list"
        /\ \A k \in 1..Len(tags) :
               /\ ResolverRequests[k + 1].kind = "commit"
               /\ ResolverRequests[k + 1].tag = tags[k].name

\* C17: the streaming GET is issued only after the HEAD probe succeeded and
\* the file is opened only after the GET succeeded: when either request
\* fails the destination is as it was before the call (content kept, no new
\* file), and when the download returns the file holds the streamed body and
\* nothing of its previous content.
C17_ProbeThenGetThenOpen ==
    IsDownload =>
        /\ \A k \in 1..Len(http) :
               http[k].method = "GET" =>
                   k = 2 /\ http[1].method = "HEAD" /\ Completed(http[1])
        /\ disk # before => Len(http) = 2 /\ Completed(http[2])
        /\ (http # <<>> /\ ~Completed(http[Len(http)])) => disk = before
        /\ outcome.kind = "returned" =>
               /\ disk.exists
               /\ Len(disk.content) = Sum(stream)
               /\ \A j \in 1..Len(disk.content) : disk.content[j] = "new"

C17_Witness ==
    /\ IsDownload
    /\ outcome.kind = "returned"
    /\ before.exists
    /\ before.content # <<>>
    /\ Sum(stream) >= 1
    /\ disk.content # before.content

\* C19: under fairness every run of main ends with exit status 0 or -1, and
\* the loop over the tags goes from each tag to the next, never back.
C19_TerminatesAndLoopAdvances ==
    /\ <>(pc = "exited" /\ exit_code \in {<<0>>, <<0 - 1>>})
    /\ [][(pc = "loop" /\ pc' = "loop") => i' = i + 1]_vars
    /\ [](pc = "loop" => i \in 1..(Len(tags) + 1))

C19_Witness ==
    /\ pc = "exited"
    /\ exit_code = <<0>>
    /\ latest_version # <<>>

\* The size has been formatted.
SizeShown == IsDownload /\ Len(http) >= 1 /\ Completed(http[1])
             /\ http[1].length.kind # "garbage"

Shown(n, frac, unit) == [int |-> n, frac |-> frac, unit |-> unit]

\* total_size <= k * 1024
AtMostKib(n, k) == n.kib < k \/ (n.kib = k /\ n.rem = 0)

\* C20: the size is shown in bytes up to 1024, in KB up to 1024^2, in MB up
\* to 1024^3 and in GB above, with one decimal for KB, MB and GB: 500 is
\* "500 bytes", 2048 "2.0 KB", 5*1024^2 "5.0 MB", 2*1024^3 "2.0 GB", and an
\* absent content length "0 bytes".
C20_SizeShownByThresholds ==
    SizeShown =>
        /\ http[1].length.kind = "absent" => size_str = Shown(0, <<>>, "bytes")
        /\ total_size = Bytes(0, 500) => size_str = Shown(500, <<>>, "bytes")
        /\ total_size = Bytes(2, 0) => size_str = Shown(2, <<0>>, "KB")
        /\ total_size = Bytes(5 * 1024, 0) => size_str = Shown(5, <<0>>, "MB")
        /\ total_size = Bytes(2 * 1024 * 1024, 0) => size_str = Shown(2, <<0>>, "GB")
        /\ size_str.unit = "bytes" <=> AtMostKib(total_size, 1)
        /\ size_str.unit = "KB" <=>
               ~AtMostKib(total_size, 1) /\ AtMostKib(total_size, 1024)
        /\ size_str.unit = "MB" <=>
               ~AtMostKib(total_size, 1024) /\ AtMostKib(total_size, 1024 * 1024)
        /\ size_str.unit = "GB" <=> ~AtMostKib(total_size, 1024 * 1024)
        /\ Len(size_str.frac) = IF size_str.unit = "bytes" THEN 0 ELSE 1

C20_Witness ==
    /\ SizeShown
    /\ total_size = Bytes(2 * 1024 * 1024, 0)
    /\ size_str = Shown(2, <<0>>, "GB")

====
